---- MODULE Spec2Model ----
(***************************************************************************)
(* cemc_takler_util: the runtime configurator (set_runtime and the three   *)
(* parameter-set builders), the scheduling configurator (set_scheduling)   *)
(* and the module loader (load_module_from_file_path), modelled from       *)
(* src/cemc_takler_util/__init__.py.                                       *)
(*                                                                         *)
(* Python values are records tagged with their type, so that None, a       *)
(* string and an integer are three different values: None is               *)
(* [py |-> "None"], "fast" is [py |-> "str", v |-> "fast"], 4 is           *)
(* [py |-> "int", v |-> 4].  A dict is a function whose DOMAIN is the set   *)
(* of its keys: a key that is absent and a key bound to None differ.       *)
(***************************************************************************)
EXTENDS Integers, Sequences, FiniteSets, TLC

VARIABLES
    node_parameters,  \* the node's parameter store (a dict)
    node_repeat,      \* the node's repeat object, None when it has none
    call,             \* the last call of set_runtime / set_scheduling: its arguments
    node_calls,       \* the calls that last call made on the node, in order
    raised,           \* the exception that last call raised, None when it returned
    before,           \* the node (parameters, repeat) as it was before that call
    sys_modules,      \* sys.modules: the process-wide registry, name -> module object
    boot_modules,     \* sys.modules as it was when the process started
    heap,             \* the module objects created so far; an object's identity is its index
    pc,               \* per caller: the line of load_module_from_file_path it is about to run
    frame,            \* per caller: the arguments and locals of its call
    outcome,          \* per caller: what its last finished call returned or raised
    writes,           \* the module objects written to sys.modules, in the order of the writes
    finished          \* the callers whose calls returned, in the order of the returns

node_vars == <<node_parameters, node_repeat, call, node_calls, raised, before>>
loader_vars == <<sys_modules, boot_modules, heap, pc, frame, outcome, writes, finished>>
vars == <<node_parameters, node_repeat, call, node_calls, raised, before,
          sys_modules, boot_modules, heap, pc, frame, outcome, writes, finished>>

----------------------------------------------------------------------------
(* Python values *)

None == [py |-> "None"]
Str(s) == [py |-> "str", v |-> s]
Num(n) == [py |-> "int", v |-> n]
Date(y, m, d) == [py |-> "date", year |-> y, month |-> m, day |-> d]

EmptyDict == [k \in {} |-> None]

\* d[k] = v for a dict d: the key is added, or its value replaced.
DictSet(d, k, v) == (k :> v) @@ d

\* raise cls(msg)
Exception(cls, msg) == [py |-> "exception", type |-> cls, message |-> msg]

\* How an f-string renders a value.
Format(v) ==
    IF v = None THEN "None"
    ELSE IF v.py = "int" THEN ToString(v.v)
    ELSE v.v

----------------------------------------------------------------------------
(* Module constants *)

slurm_job_cmd == "sbatch {{ TAKLER_JOB }}"
slurm_kill_cmd == "scancel {{ TAKLER_RID }}"

\* takler.tasks.shell.constant: opaque templates, passed through.
DEFAULT_TAKLER_SHELL_JOB_CMD == "DEFAULT_TAKLER_SHELL_JOB_CMD"
DEFAULT_TAKLER_SHELL_KILL_CMD == "DEFAULT_TAKLER_SHELL_KILL_CMD"

----------------------------------------------------------------------------
(* The parameter-set builders *)

shell_job ==
    ("TAKLER_SHELL_JOB_CMD" :> Str(DEFAULT_TAKLER_SHELL_JOB_CMD))
    @@ ("TAKLER_SHELL_KILL_CMD" :> Str(DEFAULT_TAKLER_SHELL_KILL_CMD))

slurm_serial_job(class_name, workload_key) ==
    LET params == ("TAKLER_SHELL_JOB_CMD" :> Str(slurm_job_cmd))
                  @@ ("TAKLER_SHELL_KILL_CMD" :> Str(slurm_kill_cmd))
                  @@ ("PARTITION" :> class_name)
    IN IF workload_key # None THEN DictSet(params, "WCKEY", workload_key) ELSE params

\* slurm_parallel_job with WCKEY set whether or not there is a workload key.
slurm_parallel_job_wckey_always(nodes, tasks_per_node, class_name, workload_key) ==
    ("TAKLER_SHELL_JOB_CMD" :> Str(slurm_job_cmd))
    @@ ("TAKLER_SHELL_KILL_CMD" :> Str(slurm_kill_cmd))
    @@ ("PARTITION" :> class_name)
    @@ ("NODES" :> nodes)
    @@ ("TASKS_PER_NODE" :> tasks_per_node)
    @@ ("WCKEY" :> workload_key)

slurm_parallel_job(nodes, tasks_per_node, class_name, workload_key) ==
    LET params == ("TAKLER_SHELL_JOB_CMD" :> Str(slurm_job_cmd))
                  @@ ("TAKLER_SHELL_KILL_CMD" :> Str(slurm_kill_cmd))
                  @@ ("PARTITION" :> class_name)
                  @@ ("NODES" :> nodes)
                  @@ ("TASKS_PER_NODE" :> tasks_per_node)
    IN IF workload_key # None THEN DictSet(params, "WCKEY", workload_key) ELSE params

----------------------------------------------------------------------------
(* The node (takler.core.node.Node) *)

\* One call on the node.
AddParameter(d) == [method |-> "add_parameter", arg |-> d]
AddRepeat(r) == [method |-> "add_repeat", arg |-> r]

\* Node.add_parameter(dict): the dict's items are merged into the store.
add_parameter(store, d) == d @@ store

\* Node.add_repeat(repeat): the node holds the repeat.
add_repeat(repeat, r) == r

RECURSIVE ApplyCalls(_, _)
\* The node <<parameters, repeat>> after the calls cs, in order.
ApplyCalls(node, cs) ==
    IF cs = <<>> THEN node
    ELSE LET c == Head(cs)
         IN ApplyCalls(
                IF c.method = "add_parameter"
                THEN <<add_parameter(node[1], c.arg), node[2]>>
                ELSE <<node[1], add_repeat(node[2], c.arg)>>,
                Tail(cs))

----------------------------------------------------------------------------
(* set_runtime *)

\* The configuration is one set_runtime supports.
Supported(cfg) ==
    \/ cfg.runtime_type = Str("shell")
    \/ /\ cfg.runtime_type = Str("slurm")
       /\ cfg.job_type \in {Str("serial"), Str("parallel")}

\* What a run of a function did: the calls it made on the node, then the
\* exception it raised (None: it returned).
Did(cs, exc) == [calls |-> cs, exc |-> exc]

\* set_runtime with every runtime type other than slurm taken for shell.
set_runtime_shell_fallback(runtime_config) ==
    IF runtime_config.runtime_type = Str("slurm") /\ Supported(runtime_config)
    THEN IF runtime_config.job_type = Str("serial")
         THEN Did(<<AddParameter(slurm_serial_job(runtime_config.job_class,
                                                   runtime_config.workload_key))>>, None)
         ELSE Did(<<AddParameter(slurm_parallel_job(runtime_config.nodes,
                                                     runtime_config.tasks_per_node,
                                                     runtime_config.job_class,
                                                     runtime_config.workload_key))>>, None)
    ELSE Did(<<AddParameter(shell_job)>>, None)

set_runtime(runtime_config) ==
    LET runtime_type == runtime_config.runtime_type
        job_type == runtime_config.job_type
    IN IF runtime_type = Str("shell")
       THEN Did(<<AddParameter(shell_job)>>, None)
       ELSE IF runtime_type = Str("slurm")
       THEN IF job_type = Str("serial")
            THEN Did(<<AddParameter(slurm_serial_job(runtime_config.job_class,
                                                      runtime_config.workload_key))>>,
                     None)
            ELSE IF job_type = Str("parallel")
            THEN Did(<<AddParameter(slurm_parallel_job(runtime_config.nodes,
                                                        runtime_config.tasks_per_node,
                                                        runtime_config.job_class,
                                                        runtime_config.workload_key))>>,
                     None)
            ELSE Did(<<>>, Exception("ValueError",
                         "job type for slurm is not supported: " \o Format(job_type)))
       ELSE Did(<<>>, Exception("ValueError",
                    "runtime type is not supported: " \o Format(runtime_type)))

----------------------------------------------------------------------------
(* set_scheduling *)

\* n as two digits, zero-padded: strftime's %m and %d.
Pad2(n) == IF n < 10 THEN "0" \o ToString(n) ELSE ToString(n)

\* date.strftime("%Y%m%d"), as CPython (before 3.13) on glibc formats it: %Y is
\* the year in decimal with no padding, %m and %d are zero-padded to two digits.
\* date(5, 1, 2).strftime("%Y%m%d") is "50102".
strftime(d) == ToString(d.year) \o Pad2(d.month) \o Pad2(d.day)

\* takler.core.RepeatDate(variable_name, start_date, end_date): a value object.
RepeatDate(variable_name, start_date, end_date) ==
    [py |-> "RepeatDate", variable_name |-> variable_name,
     start_date |-> start_date, end_date |-> end_date]

\* Attribute lookup on None.
NoAttribute(attr) ==
    Exception("AttributeError", "'NoneType' object has no attribute '" \o attr \o "'")

\* set_scheduling with the RepeatDay branch a silent no-op.
set_scheduling_repeat_day_ignored(scheduling_config, repeat_date_variable_name) ==
    IF scheduling_config.scheduling_type = Str("RepeatDate")
    THEN IF scheduling_config.start_date = None \/ scheduling_config.end_date = None
         THEN Did(<<>>, NoAttribute("strftime"))
         ELSE Did(<<AddRepeat(RepeatDate(repeat_date_variable_name,
                                         Str(strftime(scheduling_config.start_date)),
                                         Str(strftime(scheduling_config.end_date))))>>,
                  None)
    ELSE IF scheduling_config.scheduling_type = Str("RepeatDay")
    THEN Did(<<>>, None)
    ELSE Did(<<>>, Exception("ValueError",
                 "scheduling type is not supported: "
                 \o Format(scheduling_config.scheduling_type)))

set_scheduling(scheduling_config, repeat_date_variable_name) ==
    LET scheduling_type == scheduling_config.scheduling_type
    IN IF scheduling_type = Str("RepeatDate")
       THEN IF scheduling_config.start_date = None
            THEN Did(<<>>, NoAttribute("strftime"))
            ELSE IF scheduling_config.end_date = None
            THEN Did(<<>>, NoAttribute("strftime"))
            ELSE Did(<<AddRepeat(RepeatDate(repeat_date_variable_name,
                                            Str(strftime(scheduling_config.start_date)),
                                            Str(strftime(scheduling_config.end_date))))>>,
                     None)
       ELSE IF scheduling_type = Str("RepeatDay")
       THEN Did(<<>>, Exception("ValueError", "RepeatDay is not implemented"))
       ELSE Did(<<>>, Exception("ValueError",
                    "scheduling type is not supported: " \o Format(scheduling_type)))

\* The default of set_scheduling's third parameter.
DefaultVariableName == Str("TAKLER_DATE")

\* An argument the caller did not pass.
Omitted == [py |-> "omitted"]

----------------------------------------------------------------------------
(* The inputs *)

RuntimeTypes == {Str("shell"), Str("slurm"), Str("shelll")}
JobTypes == {Str("serial"), Str("parallel"), Str("array")}
JobClasses == {None, Str("fast")}
NodeCounts == {None, Num(4)}
TasksPerNode == {None, Num(16)}
WorkloadKeys == {None, Str("acct1")}

\* RuntimeConfig. pydantic checks the Literal fields when the record is built
\* from data, not when a field is assigned or the record is built with
\* construct(): set_runtime can be handed a value outside the Literal.
RuntimeConfigs ==
    [runtime_type : RuntimeTypes, job_type : JobTypes, job_class : JobClasses,
     nodes : NodeCounts, tasks_per_node : TasksPerNode, workload_key : WorkloadKeys]

SchedulingTypes == {Str("RepeatDate"), Str("RepeatDay"), Str("RepeatWeek")}
Dates == {Date(2024, 1, 1), Date(2024, 1, 31), Date(999, 12, 9), Date(5, 1, 2)}
VariableNames == {Omitted, Str("MY_DATE")}

\* SchedulingConfig
SchedulingConfigs ==
    [scheduling_type : SchedulingTypes,
     start_date : Dates \cup {None}, end_date : Dates \cup {None}]

----------------------------------------------------------------------------
(* The configurators' calls *)

NoCall == [fn |-> "none", config |-> None, variable_name |-> Omitted]

\* The node after a run that did `did`, and the record of the run.
Ran(c, did) ==
    LET node == ApplyCalls(<<node_parameters, node_repeat>>, did.calls)
    IN /\ call' = c
       /\ node_calls' = did.calls
       /\ raised' = did.exc
       /\ before' = <<node_parameters, node_repeat>>
       /\ node_parameters' = node[1]
       /\ node_repeat' = node[2]

\* set_runtime(node, runtime_config)
SetRuntime(runtime_config) ==
    /\ Ran([fn |-> "set_runtime", config |-> runtime_config, variable_name |-> Omitted],
           set_runtime(runtime_config))
    /\ UNCHANGED loader_vars

\* set_scheduling(node, scheduling_config) and
\* set_scheduling(node, scheduling_config, repeat_date_variable_name)
SetScheduling(scheduling_config, variable_name) ==
    /\ Ran([fn |-> "set_scheduling", config |-> scheduling_config,
            variable_name |-> variable_name],
           set_scheduling(scheduling_config,
                          IF variable_name = Omitted THEN DefaultVariableName
                          ELSE variable_name))
    /\ UNCHANGED loader_vars

----------------------------------------------------------------------------
(* load_module_from_file_path *)

\* The bound of the model: the module objects the process holds at most,
\* the one it starts with included.
MaxModules == 4

\* The threads that call the loader.
Callers == {"A", "B"}

\* The names a caller passes as module_name.
ModuleNames == {"suite_config", "my_config"}

\* os.getcwd(): the process's working directory.
Cwd == "/srv/suite"

\* The file_path arguments: a.py, bad.py and conf.txt are relative to the
\* working directory, /opt/conf/b.py is absolute.  a.py and b.py run to their
\* end, bad.py raises RuntimeError from its top-level code, conf.txt has a
\* suffix no source loader takes.
Paths == {"a.py", "/opt/conf/b.py", "bad.py", "conf.txt"}

\* os.path.isabs(path), on the paths above.
isabs(path) == path \in {"/opt/conf/b.py"}

\* os.path.abspath(path): a relative path is joined to the working directory.
abspath(path) == IF isabs(path) THEN path ELSE Cwd \o "/" \o path

\* The suffix of the path is one a source loader takes (.py).
HasSourceSuffix(path) == path \in {abspath(q) : q \in {"a.py", "/opt/conf/b.py", "bad.py"}}

\* A reference to the module object heap[i].
ModuleRef(i) == [py |-> "module", id |-> i]

\* A module object: __name__, __file__, and how far its top-level code ran.
Module(name, origin, state) == [name |-> name, origin |-> origin, state |-> state]

\* importlib.util.spec_from_file_location(name, location): the location is made
\* absolute; the spec's origin is that absolute path; None when no loader
\* takes the file's suffix.
spec_from_file_location(name, location) ==
    LET path == abspath(location)
    IN IF HasSourceSuffix(path)
       THEN [py |-> "ModuleSpec", name |-> name, origin |-> path]
       ELSE None

\* What spec.loader.exec_module(module) does with the top-level code of the
\* file at the spec's origin.
TopLevel(origin) ==
    IF origin = abspath("bad.py") THEN Exception("RuntimeError", "boom") ELSE None

\* A caller's frame: given_name is the module_name argument as the caller passed
\* it, the rest are the function's variables.
NoFrame == [given_name |-> None, module_name |-> None, file_path |-> None,
            spec |-> None, config_module |-> None]

Returned(value) == [py |-> "returned", value |-> value]

Idle == \A c \in Callers : pc[c] = "idle"

\* The call: the arguments are bound.
Enter(c, name, path) ==
    /\ pc[c] = "idle"
    /\ Len(heap) < MaxModules
    /\ frame' = [frame EXCEPT ![c] = [given_name |-> Str(name), module_name |-> Str(name),
                                      file_path |-> Str(path), spec |-> None,
                                      config_module |-> None]]
    /\ outcome' = [outcome EXCEPT ![c] = None]
    /\ pc' = [pc EXCEPT ![c] = "113"]
    /\ UNCHANGED <<sys_modules, boot_modules, heap, writes, finished>>
    /\ UNCHANGED node_vars

\* module_name = "suite_config"
\* spec = importlib.util.spec_from_file_location(module_name, file_path)
MakeSpec(c) ==
    /\ pc[c] = "113"
    /\ LET module_name == Str("suite_config")
       IN frame' = [frame EXCEPT ![c].module_name = module_name,
                                 ![c].spec = spec_from_file_location(module_name.v,
                                                                     frame[c].file_path.v)]
    /\ pc' = [pc EXCEPT ![c] = "115"]
    /\ UNCHANGED <<sys_modules, boot_modules, heap, outcome, writes, finished>>
    /\ UNCHANGED node_vars

\* importlib.util.module_from_spec(spec): a new module object.
module_from_spec(objects, spec) == Append(objects, Module(spec.name, spec.origin, "new"))

\* config_module = importlib.util.module_from_spec(spec)
CreateModule(c) ==
    /\ pc[c] = "115"
    /\ IF frame[c].spec = None
       THEN /\ outcome' = [outcome EXCEPT ![c] =
                              Exception("AttributeError",
                                        "'NoneType' object has no attribute 'loader'")]
            /\ pc' = [pc EXCEPT ![c] = "idle"]
            /\ UNCHANGED <<heap, frame>>
       ELSE /\ heap' = module_from_spec(heap, frame[c].spec)
            /\ frame' = [frame EXCEPT ![c].config_module = ModuleRef(Len(heap'))]
            /\ pc' = [pc EXCEPT ![c] = "116"]
            /\ UNCHANGED outcome
    /\ UNCHANGED <<sys_modules, boot_modules, writes, finished>>
    /\ UNCHANGED node_vars

\* The caller's name honoured: module_name never rebound.
GivenName(f) == f.given_name.v

\* The name the module is registered under: module_name, rebound at line 113.
RegisteredName(f) == f.module_name.v

\* sys.modules.setdefault(name, module): an existing binding is kept.
RegistryKeep(registry, name, module) ==
    IF name \in DOMAIN registry THEN registry ELSE DictSet(registry, name, module)

\* sys.modules[name] = module
RegistryWrite(registry, name, module) == DictSet(registry, name, module)

\* sys.modules[module_name] = config_module
Register(c) ==
    /\ pc[c] = "116"
    /\ sys_modules' = RegistryWrite(sys_modules, RegisteredName(frame[c]),
                                    frame[c].config_module)
    /\ writes' = Append(writes, frame[c].config_module)
    /\ pc' = [pc EXCEPT ![c] = "117"]
    /\ UNCHANGED <<boot_modules, heap, frame, outcome, finished>>
    /\ UNCHANGED node_vars

\* sys.modules after exec_module raised, had the loader dropped the entry of
\* the module that failed (as importlib's own import does).
FailedExecDropped(registry, f) ==
    [n \in DOMAIN registry \ {f.module_name.v} |-> registry[n]]

\* sys.modules after exec_module raised: the loader has no handler, the
\* registry stays as line 116 left it.
AfterFailedExec(registry, f) == registry

\* spec.loader.exec_module(config_module)
ExecModule(c) ==
    /\ pc[c] = "117"
    /\ LET exc == TopLevel(frame[c].spec.origin)
           id == frame[c].config_module.id
       IN IF exc = None
          THEN /\ heap' = [heap EXCEPT ![id].state = "executed"]
               /\ pc' = [pc EXCEPT ![c] = "118"]
               /\ UNCHANGED <<outcome, sys_modules>>
          ELSE /\ heap' = [heap EXCEPT ![id].state = "partial"]
               /\ outcome' = [outcome EXCEPT ![c] = exc]
               /\ sys_modules' = AfterFailedExec(sys_modules, frame[c])
               /\ pc' = [pc EXCEPT ![c] = "idle"]
    /\ UNCHANGED <<boot_modules, frame, writes, finished>>
    /\ UNCHANGED node_vars

\* return config_module
Return(c) ==
    /\ pc[c] = "118"
    /\ outcome' = [outcome EXCEPT ![c] = Returned(frame[c].config_module)]
    /\ finished' = Append(finished, frame[c].config_module)
    /\ pc' = [pc EXCEPT ![c] = "idle"]
    /\ UNCHANGED <<sys_modules, boot_modules, heap, frame, writes>>
    /\ UNCHANGED node_vars

----------------------------------------------------------------------------
(* The specifications *)

\* The registries a process may start with: the module object it already holds
\* is registered under no name, under "suite_config", or under "my_config".
BootRegistries ==
    {EmptyDict, "suite_config" :> ModuleRef(1), "my_config" :> ModuleRef(1)}

Init ==
    /\ node_parameters = EmptyDict
    /\ node_repeat = None
    /\ call = NoCall
    /\ node_calls = <<>>
    /\ raised = None
    /\ before = <<EmptyDict, None>>
    /\ boot_modules \in BootRegistries
    /\ sys_modules = boot_modules
    /\ heap = <<Module("boot", "/srv/suite/boot.py", "executed")>>
    /\ pc = [c \in Callers |-> "idle"]
    /\ frame = [c \in Callers |-> NoFrame]
    /\ outcome = [c \in Callers |-> None]
    /\ writes = <<>>
    /\ finished = <<>>

\* The runtime configurator, called again and again on one node.
RuntimeNext == \E cfg \in RuntimeConfigs : SetRuntime(cfg)
SpecRuntime == Init /\ [][RuntimeNext]_vars

\* The scheduling configurator, called again and again on one node.
SchedulingNext ==
    \E cfg \in SchedulingConfigs : \E name \in VariableNames : SetScheduling(cfg, name)
SpecScheduling == Init /\ [][SchedulingNext]_vars

\* The loader called sequentially: a call starts when no call is running.
SequentialNext ==
    \E c \in Callers :
        \/ Idle /\ \E name \in ModuleNames : \E path \in Paths : Enter(c, name, path)
        \/ MakeSpec(c)
        \/ CreateModule(c)
        \/ Register(c)
        \/ ExecModule(c)
        \/ Return(c)
SpecSequential == Init /\ [][SequentialNext]_vars

\* The loader called from two threads: their lines interleave.
ConcurrentNext ==
    \E c \in Callers :
        \/ \E name \in ModuleNames : \E path \in Paths : Enter(c, name, path)
        \/ MakeSpec(c)
        \/ CreateModule(c)
        \/ Register(c)
        \/ ExecModule(c)
        \/ Return(c)
SpecConcurrent == Init /\ [][ConcurrentNext]_vars

Next == RuntimeNext \/ SchedulingNext \/ ConcurrentNext
Spec == Init /\ [][Next]_vars

----------------------------------------------------------------------------
(* The runtime configurator's properties *)

\* The last call was set_runtime.
RuntimeCall == call.fn = "set_runtime"

\* The last call was set_runtime on a slurm configuration of this job type.
SlurmCall(job_type) ==
    /\ RuntimeCall
    /\ call.config.runtime_type = Str("slurm")
    /\ call.config.job_type = Str(job_type)

\* The last call returned after exactly one add_parameter call on the node.
AttachedOnce ==
    /\ raised = None
    /\ Len(node_calls) = 1
    /\ node_calls[1].method = "add_parameter"

\* The parameter set that call attached.
Attached == node_calls[1].arg

\* C1: a slurm serial configuration with job_class and workload_key unset
\* attaches exactly the two slurm command templates and PARTITION "serial",
\* and no WCKEY.
C1_SerialDefaultPartition ==
    (SlurmCall("serial") /\ call.config.job_class = None
                         /\ call.config.workload_key = None)
    => /\ AttachedOnce
       /\ Attached = ("TAKLER_SHELL_JOB_CMD" :> Str("sbatch {{ TAKLER_JOB }}"))
                     @@ ("TAKLER_SHELL_KILL_CMD" :> Str("scancel {{ TAKLER_RID }}"))
                     @@ ("PARTITION" :> Str("serial"))

\* C2: a slurm parallel configuration attaches TASKS_PER_NODE 32 when
\* tasks_per_node is unset and PARTITION "normal" when job_class is unset, and
\* the configured values when they are set.
C2_ParallelDefaults ==
    SlurmCall("parallel")
    => /\ AttachedOnce
       /\ Attached["TASKS_PER_NODE"] =
              (IF call.config.tasks_per_node = None THEN Num(32)
               ELSE call.config.tasks_per_node)
       /\ Attached["PARTITION"] =
              (IF call.config.job_class = None THEN Str("normal")
               ELSE call.config.job_class)

\* C3: every key of the parameter set set_runtime attaches has a non-null value.
C3_NoNullValue ==
    (RuntimeCall /\ raised = None)
    => /\ AttachedOnce
       /\ \A k \in DOMAIN Attached : Attached[k] # None

\* C4: on slurm (serial or parallel) the attached set has WCKEY exactly when
\* workload_key is not None, and then WCKEY is workload_key; on shell it never
\* has WCKEY.
C4_WckeyIffWorkloadKey ==
    /\ (SlurmCall("serial") \/ SlurmCall("parallel"))
       => /\ AttachedOnce
          /\ ("WCKEY" \in DOMAIN Attached) <=> (call.config.workload_key # None)
          /\ ("WCKEY" \in DOMAIN Attached)
             => Attached["WCKEY"] = call.config.workload_key
    /\ (RuntimeCall /\ call.config.runtime_type = Str("shell"))
       => /\ AttachedOnce
          /\ "WCKEY" \notin DOMAIN Attached

\* A parallel slurm call with a workload key attached it as WCKEY, on a node
\* whose store had no WCKEY before.
C4_Witness ==
    /\ SlurmCall("parallel")
    /\ call.config.workload_key = Str("acct1")
    /\ "WCKEY" \notin DOMAIN before[1]
    /\ node_parameters["WCKEY"] = Str("acct1")

\* C5: on a runtime_type outside {shell, slurm}, and on slurm with a job_type
\* outside {serial, parallel}, set_runtime raises ValueError, calls
\* add_parameter not once, and leaves the node's parameter store as it was.
C5_UnsupportedLeavesStore ==
    (RuntimeCall /\ ~Supported(call.config))
    => /\ raised # None
       /\ raised.type = "ValueError"
       /\ node_calls = <<>>
       /\ node_parameters = before[1]

\* set_runtime failed on the runtime type "shelll", on a node that already
\* held parameters.
C5_Witness ==
    /\ RuntimeCall
    /\ call.config.runtime_type = Str("shelll")
    /\ raised # None
    /\ raised.message = "runtime type is not supported: shelll"
    /\ "PARTITION" \in DOMAIN node_parameters

----------------------------------------------------------------------------
(* The scheduling configurator's properties *)

\* The last call was set_scheduling with this scheduling type.
SchedulingCall(scheduling_type) ==
    /\ call.fn = "set_scheduling"
    /\ call.config.scheduling_type = Str(scheduling_type)

\* n as four digits, zero-padded.
Pad4(n) ==
    IF n < 10 THEN "000" \o ToString(n)
    ELSE IF n < 100 THEN "00" \o ToString(n)
    ELSE IF n < 1000 THEN "0" \o ToString(n)
    ELSE ToString(n)

\* The date as eight characters, YYYYMMDD, zero-padded.
YYYYMMDD(d) == Str(Pad4(d.year) \o Pad2(d.month) \o Pad2(d.day))

\* C6: a RepeatDate configuration with both dates set makes exactly one
\* add_repeat call, with RepeatDate(the given name or "TAKLER_DATE", the start
\* date as eight zero-padded characters YYYYMMDD, the end date likewise), and
\* no add_parameter call.
C6_RepeatDateFormatted ==
    (SchedulingCall("RepeatDate") /\ call.config.start_date # None
                                  /\ call.config.end_date # None)
    => /\ raised = None
       /\ Len(node_calls) = 1
       /\ node_calls[1].method = "add_repeat"
       /\ Len(node_calls[1].arg.start_date.v) = 8
       /\ Len(node_calls[1].arg.end_date.v) = 8
       /\ node_calls[1].arg =
              RepeatDate(IF call.variable_name = Omitted THEN Str("TAKLER_DATE")
                         ELSE call.variable_name,
                         YYYYMMDD(call.config.start_date),
                         YYYYMMDD(call.config.end_date))

\* The error set_scheduling raises for a scheduling type it does not support.
InvalidConfiguration == set_scheduling([call.config EXCEPT !.scheduling_type =
                                            Str("RepeatWeek")], DefaultVariableName).exc

\* C7, as claimed: a RepeatDay configuration fails with an error of a kind other
\* than the invalid-configuration error's, and attaches no repeat object.
C7_RepeatDayDistinctKind ==
    SchedulingCall("RepeatDay")
    => /\ raised # None
       /\ raised.type # InvalidConfiguration.type
       /\ node_calls = <<>>
       /\ node_repeat = before[2]

\* C7, amended: a RepeatDay configuration, whatever its dates and variable
\* name, fails with ValueError("RepeatDay is not implemented"), the exception
\* type of the invalid-configuration error with a message of its own, and
\* attaches no repeat object.
C7_RepeatDayRejected ==
    SchedulingCall("RepeatDay")
    => /\ raised # None
       /\ raised.type = "ValueError"
       /\ raised.type = InvalidConfiguration.type
       /\ raised.message = "RepeatDay is not implemented"
       /\ raised.message # InvalidConfiguration.message
       /\ node_calls = <<>>
       /\ node_repeat = before[2]
       /\ node_parameters = before[1]

\* set_scheduling failed on RepeatDay, with both dates and a variable name
\* given, on a node that already held a repeat.
C7_Witness ==
    /\ SchedulingCall("RepeatDay")
    /\ call.config.start_date # None
    /\ call.config.end_date # None
    /\ call.variable_name = Str("MY_DATE")
    /\ raised # None
    /\ node_repeat # None

----------------------------------------------------------------------------
(* The module loader's properties *)

FixedName == "suite_config"

\* The last element of a non-empty sequence.
Last(q) == q[Len(q)]

\* The caller's last call returned a module.
HasReturned(c) == pc[c] = "idle" /\ outcome[c].py = "returned"

\* The caller's last call failed in the file's top-level code.
FailedInExec(c) ==
    /\ pc[c] = "idle"
    /\ outcome[c].py = "exception"
    /\ outcome[c].type = "RuntimeError"

\* C8: after sequential calls of which the last to write the registry returned,
\* sys.modules binds "suite_config" to the module the last call returned; each
\* call returned a module object distinct from those of earlier calls and from
\* the objects that existed before; and under every other name, the caller's
\* module_name included, the registry is as it was when the process started.
C8_FixedNameRebound ==
    /\ (Idle /\ finished # <<>> /\ Last(writes) = Last(finished))
       => /\ FixedName \in DOMAIN sys_modules
          /\ sys_modules[FixedName] = Last(finished)
    /\ \A i, j \in 1..Len(finished) : i # j => finished[i] # finished[j]
    /\ \A i \in 1..Len(finished) : finished[i] # ModuleRef(1)
    /\ \A n \in (DOMAIN sys_modules \cup DOMAIN boot_modules) \ {FixedName} :
           /\ n \in DOMAIN sys_modules
           /\ n \in DOMAIN boot_modules
           /\ sys_modules[n] = boot_modules[n]

\* Two sequential calls, both passed the name "my_config", both returned: the
\* registry held the boot module under "suite_config" and now holds the second
\* call's module there, and has no entry "my_config".
C8_Witness ==
    /\ Idle
    /\ Len(finished) = 2
    /\ \A c \in Callers : HasReturned(c) /\ frame[c].given_name = Str("my_config")
    /\ boot_modules = (FixedName :> ModuleRef(1))
    /\ sys_modules = (FixedName :> Last(finished))
    /\ finished[1] # finished[2]

\* Both callers' calls returned, and they loaded different files.
BothReturned ==
    /\ \A c \in Callers : HasReturned(c)
    /\ \A c, d \in Callers : c # d => frame[c].file_path # frame[d].file_path

\* C9, as claimed: when two callers' calls on different files have both
\* finished, "suite_config" is bound to the module of the call that returned
\* later.
C9_LaterCompletionWins ==
    BothReturned => sys_modules[FixedName] = Last(finished)

\* C9, amended: when two callers' calls on different files have both finished,
\* "suite_config" is bound to the module of the call whose registry write
\* (line 116) came later, which is the module one of the two calls returned.
C9_LaterWriteWins ==
    BothReturned
    => /\ FixedName \in DOMAIN sys_modules
       /\ sys_modules[FixedName] = Last(writes)
       /\ \E c \in Callers : outcome[c].value = Last(writes)

\* Both calls returned, and the call that wrote the registry last is not the
\* call that returned last.
C9_Witness ==
    /\ BothReturned
    /\ Last(writes) # Last(finished)
    /\ sys_modules[FixedName] = Last(writes)

\* C10: the registry entry is written before the file's top-level code runs;
\* when that code raises, the caller gets the error and "suite_config" stays
\* bound to the new, partially initialised module, not to what it was bound to
\* before the call.
C10_FailedLoadStaysRegistered ==
    /\ \A c \in Callers :
           pc[c] = "117"
           => /\ FixedName \in DOMAIN sys_modules
              /\ sys_modules[FixedName] = frame[c].config_module
              /\ heap[frame[c].config_module.id].state = "new"
    /\ \A c \in Callers :
           (FailedInExec(c) /\ Last(writes) = frame[c].config_module)
           => /\ FixedName \in DOMAIN sys_modules
              /\ sys_modules[FixedName] = frame[c].config_module
              /\ heap[frame[c].config_module.id].state = "partial"
              /\ heap[frame[c].config_module.id].origin = abspath(frame[c].file_path.v)
              /\ frame[c].file_path = Str("bad.py")
              /\ frame[c].config_module # ModuleRef(1)
              /\ \A i \in 1..(Len(writes) - 1) : writes[i] # frame[c].config_module

\* A load of bad.py failed after an earlier load had returned: the registry,
\* which held the boot module and then the earlier load's module, now holds
\* the failed load's module.
C10_Witness ==
    \E c \in Callers :
        /\ Idle
        /\ FailedInExec(c)
        /\ boot_modules = (FixedName :> ModuleRef(1))
        /\ Len(finished) = 1
        /\ Len(writes) = 2
        /\ sys_modules[FixedName] = frame[c].config_module
        /\ sys_modules[FixedName] # finished[1]

====
